---- MODULE Spec2Model ----
(***************************************************************************)
(* Model of the ISS dashboard: the generative-answer client callGeminiAPI  *)
(* (retry with exponential backoff), the telemetry poll loop fetchISSData  *)
(* of ISSTracker with its two trail buffers, the tracker's live ground     *)
(* conditions schedule, and the handlers that call the client:             *)
(* predictNextCity, fetchGroundConditions, handleSend of NasaChatbot and   *)
(* handleLearnMore of NasaHistory.                                         *)
(***************************************************************************)
EXTENDS Integers, Sequences, FiniteSets, TLC

VARIABLES
    apiKey,        \* import.meta.env.VITE_GEMINI_API_KEY ("" when not configured)
    call,          \* arguments of the outermost callGeminiAPI invocation
    calls,         \* number of outermost invocations so far
    frames,        \* activations of callGeminiAPI, outermost first
    settle,        \* settlement of the innermost finished activation, travelling outwards
    result,        \* settlement delivered to the caller of the outermost activation
    netLog,        \* one entry per fetch() issued by the current call
    waits,         \* the setTimeout delays the current call has waited
    nextCity,      \* ISSTracker state nextCity
    isPredicting,  \* ISSTracker state isPredicting
    mounted,       \* the tracker view is active (its effect cleanup has not run)
    intervalId,    \* the 5 s interval: "set" or "cleared"
    issData,       \* ISSTracker state issData
    error,         \* ISSTracker state error
    orbitPoints,   \* orbitLineRef geometry position array (flat coordinates)
    groundPoints,  \* groundTrackLineRef geometry position array (flat coordinates)
    issPosition,   \* issMeshRef.current.position
    inflight,      \* telemetry requests issued and not yet settled
    requests,      \* telemetry requests issued
    ticks,         \* firings of the 5 s interval
    lastPoll,      \* the telemetry request that settled last, and how
    appendedOrbit, \* every point handed to the orbit buffer, in order (history)
    appendedGround,\* every point handed to the ground buffer, in order (history)
    writers,       \* the telemetry requests whose setIssData ran, in order (history)
    angles,        \* phi and theta of fetchISSData, in degrees
    isLiveGroundData,   \* ISSTracker state isLiveGroundData
    groundConditions,   \* ISSTracker state groundConditions
    groundDataInterval, \* the 10 s interval: "none", "set" or "cleared"
    groundTicks,   \* firings of the 10 s interval
    pending,       \* callGeminiAPI calls of the handlers that have not settled
    issued,        \* callGeminiAPI calls the handlers have made
    lastCall,      \* the handler call that settled last, and how
    escaped,       \* a rejection left a handler uncaught
    activePage,    \* App state activePage
    sends,         \* invocations of handleSend
    messages,      \* NasaChatbot state messages
    input,         \* NasaChatbot state input
    isLoading,     \* NasaChatbot state isLoading
    modalContent,  \* NasaHistory state modalContent
    isLoadingModal,\* NasaHistory state isLoadingModal
    lastClicked    \* the call of the latest handleLearnMore, and its item (history)

callVars == <<apiKey, call, calls, frames, settle, result, netLog, waits>>
clientVars == <<apiKey, call, calls, frames, settle, result, netLog, waits,
                nextCity, isPredicting>>
trackerVars == <<mounted, intervalId, issData, error, orbitPoints, groundPoints,
                 issPosition, inflight, requests, ticks, lastPoll,
                 appendedOrbit, appendedGround, writers>>
groundVars == <<isLiveGroundData, groundConditions, groundDataInterval, groundTicks>>
handlerVars == <<pending, issued, lastCall, escaped>>
chatVars == <<sends, messages, input, isLoading>>
historyVars == <<modalContent, isLoadingModal, lastClicked>>
pageVars == <<activePage, angles, groundVars, handlerVars, chatVars, historyVars>>
vars == <<apiKey, call, calls, frames, settle, result, netLog, waits,
          nextCity, isPredicting, mounted, intervalId, issData, error,
          orbitPoints, groundPoints, issPosition, inflight, requests, ticks,
          lastPoll, appendedOrbit, appendedGround, writers, angles,
          isLiveGroundData, groundConditions, groundDataInterval, groundTicks,
          pending, issued, lastCall, escaped, activePage, sends, messages,
          input, isLoading, modalContent, isLoadingModal, lastClicked>>

----------------------------------------------------------------------------
(* Bounds of the model *)

MaxRetries == 3      \* direct calls draw retries from 0..MaxRetries
MaxCalls == 1        \* outermost callGeminiAPI invocations per behaviour
MaxPolls == 4        \* telemetry requests per behaviour (Spec)
MaxInflight == 2     \* overlapping telemetry requests (Spec)
WarmPolls == 998     \* SpecTrail: successful polls before its initial state
TrailPolls == 1002   \* SpecTrail: telemetry requests per behaviour
MaxHandlerCalls == 2 \* callGeminiAPI calls made by the handlers per behaviour
MaxSends == 3        \* invocations of handleSend per behaviour
MaxGroundTicks == 2  \* firings of the 10 s interval per behaviour
GroundPolls == 2     \* SpecGround: telemetry requests per behaviour

(* Program constants *)

DefaultRetries == 3
DefaultDelay == 1000
TooManyRequests == 429
MaxCoords == 3000
CoordsPerPoint == 3

Delays == {DefaultDelay, 250}

----------------------------------------------------------------------------
(* Values *)

Null == [latitude |-> 0, longitude |-> 0, altitude |-> 0, visibility |-> "null"]

SampleEquator == [latitude |-> 0, longitude |-> 0, altitude |-> 420, visibility |-> "daylight"]
SamplePole == [latitude |-> 90, longitude |-> -180, altitude |-> 408, visibility |-> "eclipsed"]

Samples == {SampleEquator, SamplePole}

NoErr == [name |-> "", message |-> "", status |-> 0, attempt |-> 0]

Err(name, message, status, attempt) ==
    [name |-> name, message |-> message, status |-> status, attempt |-> attempt]

None == [kind |-> "none", text |-> "", err |-> NoErr]
Return(text) == [kind |-> "return", text |-> text, err |-> NoErr]
Throw(e) == [kind |-> "throw", text |-> "", err |-> e]

MissingKeyMsg == "API key is missing. Please create a .env.local file and add your VITE_GEMINI_API_KEY."
FallbackMsg == "I couldn't find a clear answer for that. Could you try rephrasing?"
PredictionFailed == "Prediction failed."
Predicting == "Predicting..."

NoBody == [parses |-> FALSE, isNull |-> FALSE, hasCandidates |-> FALSE,
           numCandidates |-> 0, hasText |-> FALSE, text |-> ""]

Body(isNull, hasCandidates, numCandidates, hasText, text) ==
    [parses |-> TRUE, isNull |-> isNull, hasCandidates |-> hasCandidates,
     numCandidates |-> numCandidates, hasText |-> hasText, text |-> text]

Texts == {"Houston", "Clear"}

\* response bodies of the generative endpoint: not JSON, the JSON value null,
\* {} , {candidates: []}, {candidates: [{}]}, a first candidate with text
Bodies == { NoBody,
            Body(TRUE, FALSE, 0, FALSE, ""),
            Body(FALSE, FALSE, 0, FALSE, ""),
            Body(FALSE, TRUE, 0, FALSE, ""),
            Body(FALSE, TRUE, 1, FALSE, ""),
            Body(FALSE, TRUE, 1, TRUE, "") }
          \cup { Body(FALSE, TRUE, 1, TRUE, t) : t \in Texts }

Rejected == [kind |-> "reject", status |-> 0, body |-> NoBody]
Pending == [kind |-> "pending", status |-> 0, body |-> NoBody]
Response(status, body) == [kind |-> "response", status |-> status, body |-> body]

\* what one fetch() of the generative endpoint can settle with
Outcomes == { Rejected }
            \cup { Response(s, NoBody) : s \in {TooManyRequests, 500} }
            \cup { Response(200, b) : b \in Bodies }

ResponseOk(o) == o.status >= 200 /\ o.status =< 299

\* groundConditions as useState initialises it: { weather: null, location: null }
NoConditions == [weather |-> "null", location |-> "null"]

Greeting == [text |-> "Hello! I'm an AI expert on NASA's history. Ask me anything about missions, astronauts, or discoveries!",
             sender |-> "bot"]

\* modalContent null: the modal is not rendered
NoModal == [year |-> 0, event |-> "", details |-> "null"]

NoAngles == [phi |-> 0 - 1, theta |-> 0 - 1]

\* the pages App renders besides the tracker
OtherPages == {"history", "chatbot"}

\* a callGeminiAPI call made by a handler, with what the handler's
\* continuation keeps in its closure
HandlerCall(id, caller, item, stage, weather) ==
    [id |-> id, caller |-> caller, item |-> item, stage |-> stage, weather |-> weather]

NoItem == [year |-> 0, event |-> ""]

NoClick == [id |-> 0, item |-> NoItem]

NoHandlerCall == [call |-> HandlerCall(0, "", NoItem, "", ""), settle |-> None, active |-> TRUE]

Apology == "Sorry, I'm having trouble connecting to my knowledge base right now. Please try again in a moment."

Generating == "Generating details..."

CouldNotLoad == "Could not load details at this time."

NotAvailable == "N/A"

\* two of the entries of historyData
HistoryData ==
    { [year |-> 1998, event |-> "ISS construction begins with the launch of the Zarya module."],
      [year |-> 2000, event |-> "Expedition 1 crew arrives, marking permanent human presence."] }

\* what the user can have typed into the chat input
Inputs == {"", "  ", "Apollo?"}

\* input.trim()
Trim(text) == IF text = "  " THEN "" ELSE text

\* the settlements of a call with the default arguments and a credential
HandlerSettlements ==
    { Return("Clear"), Throw(Err("TypeError", "Failed to fetch", 0, DefaultRetries + 1)) }

NoCall == [caller |-> "", prompt |-> [kind |-> "", latitude |-> 0, longitude |-> 0],
           retries |-> 0, delay |-> 0]

DirectPrompts == { [kind |-> "question", latitude |-> 0, longitude |-> 0] }

----------------------------------------------------------------------------
(* callGeminiAPI *)

Frame(retries, delay) == [retries |-> retries, delay |-> delay, pc |-> "fetch", err |-> NoErr]

Top == frames[Len(frames)]

Front(s) == SubSeq(s, 1, Len(s) - 1)

KeyMissingNever(key) == FALSE

\* if (!apiKey)
KeyMissing(key) == key = ""

NextRetriesByTwo(retries) == retries - 2

NextDelayLinear(delay) == delay + DefaultDelay

\* callGeminiAPI(prompt, retries - 1, delay * 2)
NextRetries(retries) == retries - 1

NextDelay(delay) == delay * 2

\* result.candidates && result.candidates[0]?.content?.parts?.[0]?.text
HasText(body) ==
    /\ body.hasCandidates
    /\ body.numCandidates > 0
    /\ body.hasText
    /\ body.text # ""

ExtractText(body) == IF HasText(body) THEN body.text ELSE FallbackMsg

Step(pc, err, s) == [pc |-> pc, err |-> err, settle |-> s]

\* the catch block of an activation with arguments f, entered with error e
CatchHandler(f, e) ==
    IF f.retries > 0
    THEN Step("waitCatch", e, None)
    ELSE Step("settled", e, Throw(e))

\* the try block of activation f from the point where its fetch, the i-th of
\* the call, settled with o; pc "thrown" stands for control entering the catch
TryBody(f, o, i) ==
    IF o.kind = "reject"
    THEN Step("thrown", Err("TypeError", "Failed to fetch", 0, i), None)
    ELSE IF ~ResponseOk(o)
    THEN IF o.status = TooManyRequests /\ f.retries > 0
         THEN Step("waitTry", NoErr, None)
         ELSE Step("thrown", Err("Error", "API responded with status: ", o.status, i), None)
    ELSE IF ~o.body.parses
    THEN Step("thrown", Err("SyntaxError", "Unexpected token", 0, i), None)
    ELSE IF o.body.isNull
    THEN Step("thrown", Err("TypeError", "Cannot read properties of null (reading 'candidates')", 0, i), None)
    ELSE Step("settled", NoErr, Return(ExtractText(o.body)))

OnFetchSettled(f, o, i) ==
    LET t == TryBody(f, o, i)
    IN IF t.pc = "thrown" THEN CatchHandler(f, t.err) ELSE t

\* entering an activation: the credential check, then the fetch is issued
EnterCall(fr, log, p, r, d) ==
    IF KeyMissing(apiKey)
    THEN [frames |-> fr, netLog |-> log, settle |-> Return(MissingKeyMsg)]
    ELSE [frames |-> Append(fr, Frame(r, d)),
          netLog |-> Append(log, [prompt |-> p, outcome |-> Pending]),
          settle |-> None]

Idle == frames = <<>> /\ settle.kind = "none"

StartCall(c, p, r, d) ==
    /\ Idle
    /\ calls < MaxCalls
    /\ calls' = calls + 1
    /\ call' = [caller |-> c, prompt |-> p, retries |-> r, delay |-> d]
    /\ LET e == EnterCall(<<>>, <<>>, p, r, d)
       IN /\ frames' = e.frames
          /\ netLog' = e.netLog
          /\ settle' = e.settle
    /\ waits' = <<>>
    /\ result' = None
    /\ UNCHANGED apiKey

\* a direct invocation callGeminiAPI(prompt, retries, delay)
callGeminiAPI(p, r, d) ==
    /\ StartCall("direct", p, r, d)
    /\ UNCHANGED <<nextCity, isPredicting>>
    /\ UNCHANGED trackerVars
    /\ UNCHANGED pageVars

ToFixed4(x) == x * 10000

\* predictNextCity up to its await; the button is disabled while predicting
predictNextCity ==
    /\ mounted
    /\ issData # Null
    /\ ~isPredicting
    /\ isPredicting' = TRUE
    /\ nextCity' = Predicting
    /\ StartCall("predictNextCity",
                 [kind |-> "nextCity", latitude |-> ToFixed4(issData.latitude),
                  longitude |-> ToFixed4(issData.longitude)],
                 DefaultRetries, DefaultDelay)
    /\ UNCHANGED trackerVars
    /\ UNCHANGED pageVars

\* the fetch of the innermost activation settles and the activation runs on
\* to its next await, return or throw
FetchSettles(o) ==
    /\ frames # <<>>
    /\ settle.kind = "none"
    /\ Top.pc = "fetch"
    /\ LET i == Len(netLog)
           st == OnFetchSettled(Top, o, i)
       IN /\ netLog' = [netLog EXCEPT ![i].outcome = o]
          /\ IF st.pc = "settled"
             THEN /\ frames' = Front(frames)
                  /\ settle' = st.settle
                  /\ waits' = waits
             ELSE /\ frames' = [frames EXCEPT ![Len(frames)].pc = st.pc,
                                              ![Len(frames)].err = st.err]
                  /\ settle' = None
                  /\ waits' = Append(waits, Top.delay)
    /\ UNCHANGED <<apiKey, call, calls, result, nextCity, isPredicting>>
    /\ UNCHANGED trackerVars
    /\ UNCHANGED pageVars

AwaitsBackoffOrFetch(f) == f.pc \in {"fetch", "waitTry", "waitCatch"}

\* the activation is suspended in "await new Promise(res => setTimeout(res, delay))",
\* which it reaches only after its "await fetch(...)" has settled
AwaitsBackoff(f) == f.pc \in {"waitTry", "waitCatch"}

\* the backoff timer of the innermost activation fires and the activation
\* makes its recursive call
BackoffElapsed ==
    /\ frames # <<>>
    /\ settle.kind = "none"
    /\ AwaitsBackoff(Top)
    /\ LET f == Top
           site == IF f.pc = "waitTry" THEN "nestedTry" ELSE "nestedCatch"
           e == EnterCall([frames EXCEPT ![Len(frames)].pc = site], netLog,
                          call.prompt, NextRetries(f.retries), NextDelay(f.delay))
       IN /\ frames' = e.frames
          /\ netLog' = e.netLog
          /\ settle' = e.settle
    /\ UNCHANGED <<apiKey, call, calls, result, waits, nextCity, isPredicting>>
    /\ UNCHANGED trackerVars
    /\ UNCHANGED pageVars

CatchesNestedAwaited(pc) == pc = "nestedTry"

NestedSettleOwnError(f, s) ==
    IF s.kind = "throw" /\ f.pc = "nestedCatch" THEN Throw(f.err) ELSE s

\* "return callGeminiAPI(...)" carries no await: a rejection of the nested
\* call is not seen by the catch block around it
CatchesNested(pc) == FALSE

\* the activation settles as its nested call did
NestedSettle(f, s) == s

NeverSettles(s) == FALSE

\* the promise of the outermost activation has settled with s
Settles(s) == s.kind # "none"

\* the nested call of the innermost waiting activation has settled
Propagate ==
    /\ frames # <<>>
    /\ settle.kind # "none"
    /\ LET f == Top
       IN IF settle.kind = "throw" /\ CatchesNested(f.pc)
          THEN LET st == CatchHandler(f, settle.err)
               IN IF st.pc = "settled"
                  THEN /\ frames' = Front(frames)
                       /\ settle' = st.settle
                       /\ waits' = waits
                  ELSE /\ frames' = [frames EXCEPT ![Len(frames)].pc = st.pc,
                                                   ![Len(frames)].err = st.err]
                       /\ settle' = None
                       /\ waits' = Append(waits, f.delay)
          ELSE /\ frames' = Front(frames)
               /\ settle' = NestedSettle(f, settle)
               /\ waits' = waits
    /\ UNCHANGED <<apiKey, call, calls, result, netLog, nextCity, isPredicting>>
    /\ UNCHANGED trackerVars
    /\ UNCHANGED pageVars

\* the caller's await resumes: predictNextCity's try / catch / finally
Deliver ==
    /\ frames = <<>>
    /\ Settles(settle)
    /\ result' = settle
    /\ settle' = None
    /\ IF call.caller = "predictNextCity"
       THEN /\ nextCity' = IF settle.kind = "return" THEN settle.text ELSE PredictionFailed
            /\ isPredicting' = FALSE
       ELSE UNCHANGED <<nextCity, isPredicting>>
    /\ UNCHANGED <<apiKey, call, calls, frames, netLog, waits>>
    /\ UNCHANGED trackerVars
    /\ UNCHANGED pageVars

----------------------------------------------------------------------------
(* ISSTracker: geometry *)

\* one unit of length of the scene is Unit model units
Unit == 1048576

Abs(v) == IF v < 0 THEN 0 - v ELSE v

\* storing a number in a Float32Array keeps 24 significant bits; with Unit
\* the precision of a double, a stored value in [2,4) is a multiple of 4,
\* one in [1,2) a multiple of 2
Fround(v) ==
    LET a == Abs(v)
        q == IF a >= 2 * Unit THEN 4 ELSE IF a >= Unit THEN 2 ELSE 1
        r == ((a + q \div 2) \div q) * q
    IN IF v < 0 THEN 0 - r ELSE r

\* sine and cosine of the angles the samples of the model produce
SinDeg(d) == CASE d % 360 = 0 -> 0 [] d % 360 = 90 -> 1
               [] d % 360 = 180 -> 0 [] d % 360 = 270 -> 0 - 1

CosDeg(d) == SinDeg(d + 90)

PhiFromSouthPole(latitude) == 90 + latitude

\* phi = (90 - latitude) * (Math.PI / 180), kept in degrees
Phi(latitude) == 90 - latitude

\* theta = (longitude + 180) * (Math.PI / 180), kept in degrees
Theta(longitude) == longitude + 180

\* issRadius = 2.1 + altitude / 6371
IssRadius(altitude) == (21 * Unit) \div 10 + (altitude * Unit) \div 6371

\* groundTrackRadius = 2.01
GroundTrackRadius == (201 * Unit) \div 100

\* THREE.Vector3.setFromSphericalCoords(radius, phi, theta)
SetFromSphericalCoords(radius, phi, theta) ==
    LET sinPhiRadius == SinDeg(phi) * radius
    IN [x |-> sinPhiRadius * SinDeg(theta),
        y |-> CosDeg(phi) * radius,
        z |-> sinPhiRadius * CosDeg(theta)]

\* new THREE.Float32BufferAttribute(points, 3)
Float32Array(points) == [i \in 1..Len(points) |-> Fround(points[i])]

SpliceOne(points) ==
    IF Len(points) > MaxCoords
    THEN SubSeq(points, 2, Len(points))
    ELSE points

\* points.splice(0, 3) once the array is longer than 3000
Splice(points) ==
    IF Len(points) > MaxCoords
    THEN SubSeq(points, CoordsPerPoint + 1, Len(points))
    ELSE points

\* Array.from(position.array); points.push(x, y, z); splice; setAttribute
PushPoint(points, p) == Float32Array(Splice(points \o <<p.x, p.y, p.z>>))

----------------------------------------------------------------------------
(* ISSTracker: the telemetry poll loop *)

NoError == ""

Telemetry(kind, status, data) == [kind |-> kind, status |-> status, data |-> data]

\* what one fetch(API_URL_ISS) can settle with: a rejection, a non-OK
\* response, an OK response whose body is not JSON, one whose body is the
\* JSON value null, one carrying a sample
TelemetryOutcomes ==
    { Telemetry("reject", 0, Null), Telemetry("status", 500, Null),
      Telemetry("unparsable", 200, Null), Telemetry("nullBody", 200, Null) }
    \cup { Telemetry("ok", 200, d) : d \in Samples }

FailureKinds == {"reject", "status", "unparsable"}

\* err.message of what the try block throws
ErrMessage(o) ==
    CASE o.kind = "reject" -> "Failed to fetch"
      [] o.kind = "status" -> "Network response was not ok"
      [] o.kind = "unparsable" -> "Unexpected token"
      [] o.kind = "nullBody" -> "Cannot destructure property 'latitude' of 'data' as it is null."
      [] OTHER -> NoError

NoPoll == [id |-> 0, kind |-> "none", data |-> Null, active |-> TRUE]

IssueRequestCancelling ==
    /\ requests' = requests + 1
    /\ inflight' = {requests + 1}

\* fetchISSData up to its first await: the request is issued
IssueRequest ==
    /\ requests' = requests + 1
    /\ inflight' = inflight \cup {requests + 1}

\* the setInterval(fetchISSData, 5000) callback
TimerFires(maxPolls, maxInflight) ==
    /\ mounted
    /\ intervalId = "set"
    /\ requests < maxPolls
    /\ Cardinality(inflight) < maxInflight
    /\ ticks' = ticks + 1
    /\ IssueRequest
    /\ UNCHANGED <<mounted, intervalId, issData, error, orbitPoints, groundPoints,
                   issPosition, lastPoll, appendedOrbit, appendedGround, writers>>
    /\ UNCHANGED clientVars
    /\ UNCHANGED pageVars

AfterSettleRetrying(id, o) ==
    IF o.kind = "ok"
    THEN /\ inflight' = inflight \ {id}
         /\ UNCHANGED <<requests, ticks, intervalId, mounted>>
    ELSE /\ inflight' = (inflight \ {id}) \cup {requests + 1}
         /\ requests' = requests + 1
         /\ UNCHANGED <<ticks, intervalId, mounted>>

\* fetchISSData returns: it issues no request of its own and leaves the
\* interval running
AfterSettle(id, o) ==
    /\ inflight' = inflight \ {id}
    /\ UNCHANGED <<requests, ticks, intervalId, mounted>>

OnPollErrorClearing(o) ==
    /\ error' = ErrMessage(o)
    /\ issData' = Null
    /\ UNCHANGED <<issPosition, orbitPoints, groundPoints, appendedOrbit, appendedGround>>

\* the catch block of fetchISSData after a throw that precedes setIssData:
\* setError(err.message) and nothing else
OnPollError(o) ==
    /\ error' = ErrMessage(o)
    /\ UNCHANGED <<issData, issPosition, orbitPoints, groundPoints,
                   appendedOrbit, appendedGround>>

\* issPosition: setFromSphericalCoords(issRadius, phi, theta)
OrbitPosition(data) ==
    SetFromSphericalCoords(IssRadius(data.altitude), Phi(data.latitude), Theta(data.longitude))

\* groundPosition: setFromSphericalCoords(groundTrackRadius, phi, theta)
GroundPosition(data) ==
    SetFromSphericalCoords(GroundTrackRadius, Phi(data.latitude), Theta(data.longitude))

OnSampleOrbitOnly(data) ==
    /\ issData' = data
    /\ error' = NoError
    /\ issPosition' = OrbitPosition(data)
    /\ orbitPoints' = PushPoint(orbitPoints, OrbitPosition(data))
    /\ appendedOrbit' = Append(appendedOrbit, OrbitPosition(data))
    /\ UNCHANGED <<groundPoints, appendedGround>>

\* the try block of fetchISSData from setIssData(data) on, for a sample
OnSample(data) ==
    /\ issData' = data
    /\ error' = NoError
    /\ issPosition' = OrbitPosition(data)
    /\ orbitPoints' = PushPoint(orbitPoints, OrbitPosition(data))
    /\ groundPoints' = PushPoint(groundPoints, GroundPosition(data))
    /\ appendedOrbit' = Append(appendedOrbit, OrbitPosition(data))
    /\ appendedGround' = Append(appendedGround, GroundPosition(data))

\* the request id settles with o and fetchISSData runs to its end; a request
\* in flight when the view is torn down still settles and runs this code
fetchISSDataSettles(id, o) ==
    /\ id \in inflight
    /\ lastPoll' = [id |-> id, kind |-> o.kind, data |-> o.data, active |-> mounted]
    /\ writers' = IF o.kind \in FailureKinds THEN writers ELSE Append(writers, id)
    /\ IF o.kind \in FailureKinds
       THEN OnPollError(o)
       ELSE IF o.data = Null
       THEN \* setIssData(null); setError(null); the destructuring throws
            /\ issData' = o.data
            /\ error' = ErrMessage(o)
            /\ UNCHANGED <<issPosition, orbitPoints, groundPoints,
                           appendedOrbit, appendedGround>>
       ELSE OnSample(o.data)
    /\ AfterSettle(id, o)
    /\ UNCHANGED clientVars
    /\ UNCHANGED pageVars

ClearGroundIntervalNever == groundDataInterval' = groundDataInterval

\* clearInterval(groundDataInterval); the identifier is undefined while the
\* toggle is off
ClearGroundInterval ==
    groundDataInterval' = IF groundDataInterval = "none" THEN "none" ELSE "cleared"

\* setActivePage(page) with another page: App renders that page and the
\* tracker is unmounted; the cleanups of its two effects run,
\* clearInterval(intervalId) and clearInterval(groundDataInterval)
Teardown ==
    /\ mounted
    /\ activePage = "tracker"
    /\ activePage' \in OtherPages
    /\ mounted' = FALSE
    /\ intervalId' = "cleared"
    /\ ClearGroundInterval
    /\ UNCHANGED <<issData, error, orbitPoints, groundPoints, issPosition,
                   inflight, requests, ticks, lastPoll, appendedOrbit,
                   appendedGround, writers>>
    /\ UNCHANGED <<isLiveGroundData, groundConditions, groundTicks>>
    /\ UNCHANGED <<angles, handlerVars, chatVars, historyVars>>
    /\ UNCHANGED clientVars

----------------------------------------------------------------------------
(* The handlers that call callGeminiAPI. A call of a handler is kept in     *)
(* pending until it settles in one of the ways a call can end.              *)

\* await callGeminiAPI(prompt): the handler is suspended on the call
Invoke(caller, item, stage, weather) ==
    /\ issued < MaxHandlerCalls
    /\ issued' = issued + 1
    /\ pending' = pending \cup {HandlerCall(issued + 1, caller, item, stage, weather)}

Returned(c) ==
    /\ pending' = pending \ {c}
    /\ issued' = issued

\* the handlers whose await of the call is inside a try block with a catch
Caught(caller) ==
    caller \in {"handleSend", "predictNextCity", "handleLearnMore", "fetchGroundConditions"}

FailureTextOfError(caller, e) == e.message

\* what the catch block of the handler puts in place of the answer
FailureText(caller, e) ==
    CASE caller = "handleSend" -> Apology
      [] caller = "predictNextCity" -> PredictionFailed
      [] caller = "handleLearnMore" -> CouldNotLoad
      [] caller = "fetchGroundConditions" -> NotAvailable

\* the value the handler's try / catch leaves it with when the call settled
Answer(c, s) == IF s.kind = "return" THEN s.text ELSE FailureText(c.caller, s.err)

\* predictNextCity up to its await; the button is disabled while predicting
predictNextCityStarts ==
    /\ mounted
    /\ issData # Null
    /\ ~isPredicting
    /\ isPredicting' = TRUE
    /\ nextCity' = Predicting
    /\ Invoke("predictNextCity", NoItem, "", "")
    /\ UNCHANGED <<lastCall, escaped>>
    /\ UNCHANGED <<activePage, angles, groundVars, chatVars, historyVars>>
    /\ UNCHANGED callVars
    /\ UNCHANGED trackerVars

\* predictNextCity from its await on: try / catch / finally
predictNextCityResumes(c, s) ==
    /\ nextCity' = Answer(c, s)
    /\ isPredicting' = FALSE
    /\ Returned(c)
    /\ UNCHANGED <<groundVars, chatVars, historyVars>>

\* onChange of the chat input, which is disabled while a reply is pending
TypeInput(text) ==
    /\ activePage = "chatbot"
    /\ ~isLoading
    /\ text # input
    /\ input' = text
    /\ UNCHANGED <<sends, messages, isLoading>>
    /\ UNCHANGED <<activePage, angles, groundVars, handlerVars, historyVars>>
    /\ UNCHANGED clientVars
    /\ UNCHANGED trackerVars

BlankOnlyEmpty(text) == text = ""

\* input.trim() === ''
Blank(text) == Trim(text) = ""

\* handleSend up to its await, or to its early return
handleSend ==
    /\ activePage = "chatbot"
    /\ sends < MaxSends
    /\ sends' = sends + 1
    /\ IF Blank(input) \/ isLoading
       THEN UNCHANGED <<messages, input, isLoading, pending, issued>>
       ELSE /\ messages' = Append(messages, [text |-> input, sender |-> "user"])
            /\ input' = ""
            /\ isLoading' = TRUE
            /\ Invoke("handleSend", NoItem, "", "")
    /\ UNCHANGED <<lastCall, escaped>>
    /\ UNCHANGED <<activePage, angles, groundVars, historyVars>>
    /\ UNCHANGED clientVars
    /\ UNCHANGED trackerVars

handleSendResumesSilentFailure(c, s) ==
    /\ messages' = IF s.kind = "return"
                   THEN Append(messages, [text |-> s.text, sender |-> "bot"])
                   ELSE messages
    /\ isLoading' = FALSE
    /\ Returned(c)
    /\ UNCHANGED <<sends, input>>
    /\ UNCHANGED <<nextCity, isPredicting, groundVars, historyVars>>

\* handleSend from its await on: try / catch / finally
handleSendResumes(c, s) ==
    /\ messages' = Append(messages, [text |-> Answer(c, s), sender |-> "bot"])
    /\ isLoading' = FALSE
    /\ Returned(c)
    /\ UNCHANGED <<sends, input>>
    /\ UNCHANGED <<nextCity, isPredicting, groundVars, historyVars>>

\* handleLearnMore(item) up to its await
handleLearnMore(item) ==
    /\ activePage = "history"
    /\ isLoadingModal' = TRUE
    /\ modalContent' = [year |-> item.year, event |-> item.event, details |-> Generating]
    /\ Invoke("handleLearnMore", item, "", "")
    /\ lastClicked' = [id |-> issued', item |-> item]
    /\ UNCHANGED <<lastCall, escaped>>
    /\ UNCHANGED <<activePage, angles, groundVars, chatVars>>
    /\ UNCHANGED clientVars
    /\ UNCHANGED trackerVars

\* handleLearnMore from its await on: try / catch / finally
handleLearnMoreResumes(c, s) ==
    /\ modalContent' = [year |-> c.item.year, event |-> c.item.event, details |-> Answer(c, s)]
    /\ isLoadingModal' = FALSE
    /\ Returned(c)
    /\ UNCHANGED lastClicked
    /\ UNCHANGED <<nextCity, isPredicting, groundVars, chatVars>>

\* the close button of the modal: setModalContent(null)
CloseModal ==
    /\ activePage = "history"
    /\ modalContent # NoModal
    /\ modalContent' = NoModal
    /\ UNCHANGED <<isLoadingModal, lastClicked>>
    /\ UNCHANGED <<activePage, angles, groundVars, handlerVars, chatVars>>
    /\ UNCHANGED clientVars
    /\ UNCHANGED trackerVars

fetchGroundConditionsUnguarded(currentIssData) ==
    Invoke("fetchGroundConditions", NoItem, "weather", NotAvailable)

\* fetchGroundConditions(currentIssData) up to its first await, or to its
\* early return
fetchGroundConditions(currentIssData) ==
    IF currentIssData = Null
    THEN UNCHANGED <<pending, issued>>
    ELSE Invoke("fetchGroundConditions", NoItem, "weather", NotAvailable)

\* fetchGroundConditions from an await on: after the weather call the
\* location call is made, after the location call setGroundConditions runs
fetchGroundConditionsResumes(c, s) ==
    /\ IF c.stage = "weather"
       THEN /\ pending' = (pending \ {c}) \cup
                   {HandlerCall(issued + 1, c.caller, c.item, "location", Answer(c, s))}
            /\ issued' = issued + 1
            /\ UNCHANGED groundConditions
       ELSE /\ groundConditions' = [weather |-> c.weather, location |-> Answer(c, s)]
            /\ Returned(c)
    /\ UNCHANGED <<isLiveGroundData, groundDataInterval, groundTicks>>
    /\ UNCHANGED <<nextCity, isPredicting, chatVars, historyVars>>

\* onChange of the toggle, setIsLiveGroundData(!isLiveGroundData), and the
\* effect that depends on it: its previous cleanup, then its body
ToggleLiveGroundData ==
    /\ mounted
    /\ isLiveGroundData' = ~isLiveGroundData
    /\ IF ~isLiveGroundData
       THEN /\ fetchGroundConditions(issData)
            /\ groundDataInterval' = "set"
            /\ UNCHANGED groundConditions
       ELSE /\ groundConditions' = NoConditions
            /\ ClearGroundInterval
            /\ UNCHANGED <<pending, issued>>
    /\ UNCHANGED <<groundTicks, lastCall, escaped>>
    /\ UNCHANGED <<activePage, angles, chatVars, historyVars>>
    /\ UNCHANGED clientVars
    /\ UNCHANGED trackerVars

GroundUpdaterClearing(currentData) == Null

\* the updater handed to setIssData by the 10 s callback: return currentData
GroundUpdater(currentData) == currentData

\* the setInterval(..., 10000) callback
GroundTimerFires ==
    /\ groundDataInterval = "set"
    /\ groundTicks < MaxGroundTicks
    /\ groundTicks' = groundTicks + 1
    /\ fetchGroundConditions(issData)
    /\ issData' = GroundUpdater(issData)
    /\ UNCHANGED <<mounted, intervalId, error, orbitPoints, groundPoints, issPosition,
                   inflight, requests, ticks, lastPoll, appendedOrbit,
                   appendedGround, writers>>
    /\ UNCHANGED <<isLiveGroundData, groundConditions, groundDataInterval>>
    /\ UNCHANGED <<lastCall, escaped>>
    /\ UNCHANGED <<activePage, angles, chatVars, historyVars>>
    /\ UNCHANGED clientVars

\* the call c of a handler settles with s and the handler runs to its end
CallSettles(c, s) ==
    /\ c \in pending
    /\ lastCall' = [call |-> c, settle |-> s, active |-> mounted]
    /\ escaped' = (escaped \/ (s.kind = "throw" /\ ~Caught(c.caller)))
    /\ CASE c.caller = "handleSend" -> handleSendResumes(c, s)
         [] c.caller = "handleLearnMore" -> handleLearnMoreResumes(c, s)
         [] c.caller = "predictNextCity" -> predictNextCityResumes(c, s)
         [] c.caller = "fetchGroundConditions" -> fetchGroundConditionsResumes(c, s)
    /\ UNCHANGED <<activePage, angles>>
    /\ UNCHANGED callVars
    /\ UNCHANGED trackerVars

----------------------------------------------------------------------------
(* Specifications *)

\* ISSTracker has mounted: its state hooks hold their initial values, both
\* lines are empty, the first fetchISSData() is in flight and the interval is set
InitTracker ==
    /\ mounted = TRUE
    /\ intervalId = "set"
    /\ issData = Null
    /\ error = NoError
    /\ orbitPoints = <<>>
    /\ groundPoints = <<>>
    /\ issPosition = [x |-> 0, y |-> 0, z |-> 0]
    /\ inflight = {1}
    /\ requests = 1
    /\ ticks = 0
    /\ lastPoll = NoPoll
    /\ appendedOrbit = <<>>
    /\ appendedGround = <<>>
    /\ writers = <<>>
    /\ nextCity = ""
    /\ isPredicting = FALSE
    /\ isLiveGroundData = FALSE
    /\ groundConditions = NoConditions
    /\ groundDataInterval = "none"
    /\ groundTicks = 0

\* no handler has called the client; NasaChatbot and NasaHistory hold the
\* initial values of their state hooks
InitHandlers ==
    /\ pending = {}
    /\ issued = 0
    /\ lastCall = NoHandlerCall
    /\ escaped = FALSE
    /\ activePage = "tracker"
    /\ sends = 0
    /\ messages = <<Greeting>>
    /\ input = ""
    /\ isLoading = FALSE
    /\ modalContent = NoModal
    /\ isLoadingModal = FALSE
    /\ lastClicked = NoClick
    /\ angles = NoAngles

InitClient ==
    /\ call = NoCall
    /\ calls = 0
    /\ frames = <<>>
    /\ settle = None
    /\ result = None
    /\ netLog = <<>>
    /\ waits = <<>>

\* the tracker's poll loop; the credential is configured
Init ==
    /\ apiKey = "key"
    /\ InitClient
    /\ InitTracker
    /\ InitHandlers

Poll == \E id \in inflight, o \in TelemetryOutcomes : fetchISSDataSettles(id, o)

Tick == TimerFires(MaxPolls, MaxInflight)

Next == Tick \/ Poll \/ Teardown

Spec == Init /\ [][Next]_vars

\* the client, called directly with drawn arguments and by predictNextCity,
\* in the environment with and without the credential
InitCalls ==
    /\ apiKey \in {"", "key"}
    /\ InitClient
    /\ InitTracker
    /\ InitHandlers

\* the first poll of the tracker, reduced to its successes
FirstPollOutcomes == { Telemetry("ok", 200, d) : d \in Samples }

DirectCall == \E p \in DirectPrompts, r \in 0..MaxRetries, d \in Delays : callGeminiAPI(p, r, d)

FirstPoll == \E id \in inflight, o \in FirstPollOutcomes : fetchISSDataSettles(id, o)

Fetched == \E o \in Outcomes : FetchSettles(o)

NextCalls ==
    \/ FirstPoll
    \/ DirectCall
    \/ predictNextCity
    \/ Fetched
    \/ BackoffElapsed
    \/ Propagate
    \/ Deliver

SpecCalls == InitCalls /\ [][NextCalls]_vars

\* the three pages and their handlers: the tracker is left for another page
\* at most once
Type == \E text \in Inputs : TypeInput(text)

LearnMore == \E item \in HistoryData : handleLearnMore(item)

HandlerSettles == \E c \in pending, s \in HandlerSettlements : CallSettles(c, s)

NextHandlers ==
    \/ FirstPoll
    \/ Teardown
    \/ predictNextCityStarts
    \/ Type
    \/ handleSend
    \/ LearnMore
    \/ CloseModal
    \/ HandlerSettles

SpecHandlers == Init /\ [][NextHandlers]_vars

\* the tracker with its two schedules, the 5 s poll and the 10 s live
\* ground conditions, and its handlers
GroundPollOutcomes == { Telemetry("reject", 0, Null), Telemetry("ok", 200, SamplePole) }

PollTick == TimerFires(GroundPolls, 1)

PollSettles == \E id \in inflight, o \in GroundPollOutcomes : fetchISSDataSettles(id, o)

NextGround ==
    \/ PollTick
    \/ PollSettles
    \/ ToggleLiveGroundData
    \/ GroundTimerFires
    \/ predictNextCityStarts
    \/ HandlerSettles
    \/ Teardown

SpecGround == Init /\ [][NextGround]_vars

----------------------------------------------------------------------------
(* Properties of callGeminiAPI, checked under SpecCalls *)

TooMany == Response(TooManyRequests, NoBody)

AllTooMany(k) == \A i \in 1..k : netLog[i].outcome = TooMany

IsAnswer(o) == o.kind = "response" /\ ResponseOk(o) /\ o.body.parses /\ HasText(o.body)

\* the attempt ended in a failure: a rejection, a non-OK status, or a body
\* that is not JSON or is the JSON value null
Failed(o) ==
    \/ o.kind = "reject"
    \/ o.kind = "response" /\ (~ResponseOk(o) \/ ~o.body.parses \/ o.body.isNull)

Running == frames # <<>> /\ settle.kind = "none" /\ result.kind = "none"

\* C1: when the first k attempts (1 <= k <= retries) each end in HTTP 429,
\* the call is still running after the k-th and makes attempt k+1; when that
\* attempt is an OK response with non-empty text T the call makes no further
\* attempt and settles with exactly T.
C1_RateLimitedThenAnswer ==
    \A k \in 1..call.retries :
        (Len(netLog) >= k /\ AllTooMany(k)) =>
            /\ Len(netLog) = k => Running /\ Top.pc = "waitTry"
            /\ (Len(netLog) > k /\ IsAnswer(netLog[k + 1].outcome)) =>
                   /\ Len(netLog) = k + 1
                   /\ \/ settle = Return(netLog[k + 1].outcome.body.text)
                         /\ result.kind = "none"
                      \/ result = Return(netLog[k + 1].outcome.body.text)
                         /\ settle.kind = "none"

C1_Witness ==
    /\ call.retries = DefaultRetries
    /\ Len(netLog) = call.retries + 1
    /\ AllTooMany(call.retries)
    /\ Idle
    /\ result = Return("Houston")

\* C2: one call makes at most retries+1 network attempts; the remaining
\* retries of the nested activations go down by exactly 1 and never below 0;
\* every attempt but the first follows exactly one backoff wait, so no
\* activation retries twice.
C2_AttemptsBounded ==
    /\ Len(netLog) =< call.retries + 1
    /\ \A i \in 1..Len(frames) :
           /\ frames[i].retries = call.retries - (i - 1)
           /\ frames[i].retries >= 0
    /\ Len(waits) =< Len(netLog)
    /\ Len(netLog) =< Len(waits) + 1
    /\ Len(frames) =< Len(netLog)

C2_Witness ==
    /\ call.retries = DefaultRetries
    /\ Len(netLog) = call.retries + 1
    /\ netLog[1].outcome = TooMany
    /\ netLog[2].outcome = Response(500, NoBody)
    /\ netLog[3].outcome = Rejected
    /\ netLog[4].outcome = Response(200, NoBody)
    /\ Idle
    /\ result.kind = "throw"

\* C3: the wait before the i-th retry is exactly delay * 2^(i-1), whatever
\* caused the retry.
C3_BackoffDoubles ==
    \A i \in 1..Len(waits) : waits[i] = call.delay * 2 ^ (i - 1)

C3_Witness ==
    /\ call.delay = DefaultDelay
    /\ waits = <<1000, 2000, 4000>>
    /\ netLog[1].outcome = TooMany
    /\ netLog[2].outcome = Rejected
    /\ netLog[3].outcome = TooMany

\* C4: when all retries+1 attempts have failed the call fails, and the
\* failure that travels through the activations and reaches the caller is
\* the one raised by the last attempt; the call fails in no other case.
C4_LastFailurePropagated ==
    LET n == Len(netLog)
        raised == TryBody(Frame(0, 0), netLog[n].outcome, n).err
    IN /\ (n = call.retries + 1 /\ Failed(netLog[n].outcome)) =>
              \/ settle = Throw(raised) /\ result.kind = "none"
              \/ result = Throw(raised) /\ settle.kind = "none"
       /\ (settle.kind = "throw" \/ result.kind = "throw") =>
              /\ n = call.retries + 1
              /\ Failed(netLog[n].outcome)

C4_Witness ==
    /\ call.retries = DefaultRetries
    /\ Len(netLog) = 4
    /\ netLog[1].outcome = Rejected
    /\ netLog[3].outcome = TooMany
    /\ netLog[4].outcome = Response(500, NoBody)
    /\ Idle
    /\ result = Throw(Err("Error", "API responded with status: ", 500, 4))

\* an OK response with a JSON body that has no candidates, or whose first
\* candidate has no text or an empty text
LacksAnswer(o) == o.kind = "response" /\ ResponseOk(o) /\ o.body.parses /\ ~HasText(o.body)

\* C5: an OK response whose JSON body lacks candidates, or whose first
\* candidate has no or an empty text, is the last attempt of the call, is
\* followed by no wait, and makes the call return the fallback string.
C5_MalformedBodyFallback ==
    \A i \in 1..Len(netLog) :
        LacksAnswer(netLog[i].outcome) =>
            /\ Len(netLog) = i
            /\ Len(waits) < i
            /\ \/ settle = Return(FallbackMsg) /\ result.kind = "none"
               \/ result = Return(FallbackMsg) /\ settle.kind = "none"

\* C6: every attempt but the first follows an attempt that ended in HTTP 429
\* or in a network failure, and an attempt that ends in any other non-OK
\* status is the last one and is followed by no wait.
C6_RetryOnlyOn429OrTransport ==
    /\ \A i \in 2..Len(netLog) : netLog[i - 1].outcome \in {TooMany, Rejected}
    /\ \A i \in 1..Len(netLog) :
           LET o == netLog[i].outcome
           IN (o.kind = "response" /\ ~ResponseOk(o) /\ o.status # TooManyRequests) =>
                  Len(netLog) = i /\ Len(waits) < i

\* C7: without a credential every call returns the "API key is missing"
\* string as its result with no network attempt and no wait, and
\* predictNextCity shows that string, not its failure string.
C7_MissingKeyReturnsMessage ==
    (apiKey = "" /\ call # NoCall) =>
        /\ netLog = <<>>
        /\ waits = <<>>
        /\ frames = <<>>
        /\ \/ settle = Return(MissingKeyMsg) /\ result.kind = "none"
           \/ result = Return(MissingKeyMsg) /\ settle.kind = "none"
        /\ nextCity # PredictionFailed
        /\ (call.caller = "predictNextCity" /\ result.kind # "none") =>
               /\ nextCity = MissingKeyMsg
               /\ ~isPredicting

C7_Witness ==
    /\ apiKey = ""
    /\ call.caller = "predictNextCity"
    /\ call.retries = DefaultRetries
    /\ result = Return(MissingKeyMsg)
    /\ nextCity = MissingKeyMsg

----------------------------------------------------------------------------
(* The trail buffers at their cap: the poll loop from the state the tracker *)
(* is in after WarmPolls successful polls, one per tick, fed alternately    *)
(* with the two samples.                                                   *)

TrailFeed(id) == IF id % 2 = 0 THEN SampleEquator ELSE SamplePole

\* the points the first n polls of the feed hand to the two buffers
WarmOrbit(n) == [i \in 1..n |-> OrbitPosition(TrailFeed(i))]

WarmGround(n) == [i \in 1..n |-> GroundPosition(TrailFeed(i))]

\* the position array that holds the points pts, none evicted yet
Flat(pts) ==
    [i \in 1..(CoordsPerPoint * Len(pts)) |->
        LET p == pts[((i - 1) \div CoordsPerPoint) + 1]
            k == ((i - 1) % CoordsPerPoint) + 1
        IN IF k = 1 THEN p.x ELSE IF k = 2 THEN p.y ELSE p.z]

InitTrail ==
    /\ apiKey = "key"
    /\ InitClient
    /\ mounted = TRUE
    /\ intervalId = "set"
    /\ issData = TrailFeed(WarmPolls)
    /\ error = NoError
    /\ orbitPoints = Float32Array(Flat(WarmOrbit(WarmPolls)))
    /\ groundPoints = Float32Array(Flat(WarmGround(WarmPolls)))
    /\ issPosition = OrbitPosition(TrailFeed(WarmPolls))
    /\ inflight = {}
    /\ requests = WarmPolls
    /\ ticks = WarmPolls - 1
    /\ lastPoll = [id |-> WarmPolls, kind |-> "ok", data |-> TrailFeed(WarmPolls),
                   active |-> TRUE]
    /\ appendedOrbit = WarmOrbit(WarmPolls)
    /\ appendedGround = WarmGround(WarmPolls)
    /\ writers = [i \in 1..WarmPolls |-> i]
    /\ nextCity = ""
    /\ isPredicting = FALSE
    /\ isLiveGroundData = FALSE
    /\ groundConditions = NoConditions
    /\ groundDataInterval = "none"
    /\ groundTicks = 0
    /\ InitHandlers

TrailTick == TimerFires(TrailPolls, MaxInflight)

TrailPoll == \E id \in inflight, o \in TelemetryOutcomes : fetchISSDataSettles(id, o)

NextTrail == TrailTick \/ TrailPoll

SpecTrail == InitTrail /\ [][NextTrail]_vars

\* the run that leads from the mount to the initial state of SpecTrail
WarmTick == TimerFires(WarmPolls, 1)

WarmPoll == \E id \in inflight : fetchISSDataSettles(id, Telemetry("ok", 200, TrailFeed(id)))

SpecWarm == Init /\ [][WarmTick \/ WarmPoll]_vars

WarmStateReached == (requests = WarmPolls /\ inflight = {}) => InitTrail

----------------------------------------------------------------------------
(* Properties of the telemetry poll loop *)

MaxPoints == MaxCoords \div CoordsPerPoint

Min(a, b) == IF a < b THEN a ELSE b

\* the last min(n, 1000) points of a history, oldest first
LastPoints(h) == SubSeq(h, Len(h) - Min(Len(h), MaxPoints) + 1, Len(h))

Coord(p, k) == IF k = 1 THEN p.x ELSE IF k = 2 THEN p.y ELSE p.z

\* the coordinates of a sequence of points as a position array holds them
Stored(pts) ==
    [i \in 1..(CoordsPerPoint * Len(pts)) |->
        Fround(Coord(pts[((i - 1) \div CoordsPerPoint) + 1], ((i - 1) % CoordsPerPoint) + 1))]

\* C8: each trail buffer holds at most 1000 points (3000 coordinates) and
\* always equals the last min(n, 1000) points appended to it, in append
\* order; at the cap a new point evicts exactly the oldest one.
C8_TrailBuffersBounded ==
    /\ Len(orbitPoints) =< MaxCoords
    /\ Len(groundPoints) =< MaxCoords
    /\ orbitPoints = Stored(LastPoints(appendedOrbit))
    /\ groundPoints = Stored(LastPoints(appendedGround))

C8_Witness ==
    /\ Len(appendedOrbit) = MaxPoints + 2
    /\ Len(orbitPoints) = MaxCoords
    /\ Len(groundPoints) = MaxCoords
    /\ lastPoll.kind = "ok"
    /\ appendedOrbit[MaxPoints + 2] = appendedOrbit[MaxPoints + 1]

\* C9: a telemetry poll that fails (transport failure, non-OK status or
\* unparsable body) leaves the current sample and both trail buffers as they
\* were and sets the error state to the failure's message.
C9_FailedPollKeepsSample ==
    [][(lastPoll' # lastPoll /\ lastPoll'.kind \in FailureKinds) =>
           /\ issData' = issData
           /\ orbitPoints' = orbitPoints
           /\ groundPoints' = groundPoints
           /\ error' = ErrMessage(lastPoll')
           /\ error' # NoError]_vars

C9_Witness ==
    /\ lastPoll.kind \in FailureKinds
    /\ lastPoll.id = 3
    /\ issData = SamplePole
    /\ Len(orbitPoints) = CoordsPerPoint
    /\ Len(groundPoints) = CoordsPerPoint
    /\ error = "Network response was not ok"

\* C10: the telemetry requests issued are the initial one plus one per
\* firing of the interval; a settled poll, failed or not, issues no request
\* and leaves the interval as it was, which stays set while the view is active.
C10_OneRequestPerTick ==
    /\ [](requests = 1 + ticks /\ (mounted => intervalId = "set"))
    /\ [][lastPoll' # lastPoll =>
             /\ requests' = requests
             /\ ticks' = ticks
             /\ intervalId' = intervalId
             /\ inflight' = inflight \ {lastPoll'.id}]_vars

C10_Witness ==
    /\ mounted
    /\ issData = Null
    /\ lastPoll.kind \in FailureKinds
    /\ lastPoll.id = 3
    /\ inflight = {4}
    /\ requests = 4
    /\ ticks = 3

\* C11: a successful poll sets the current sample to the fetched document,
\* clears the error state and appends exactly one point to the orbit buffer
\* and exactly one to the ground buffer, all in the one step in which it
\* settles; the two buffers hold the same number of points at all times.
C11_SuccessfulPollOneStep ==
    /\ [](/\ Len(orbitPoints) = Len(groundPoints)
          /\ Len(appendedOrbit) = Len(appendedGround))
    /\ [][(lastPoll' # lastPoll /\ lastPoll'.kind = "ok") =>
             /\ issData' = lastPoll'.data
             /\ error' = NoError
             /\ appendedOrbit' = Append(appendedOrbit, OrbitPosition(lastPoll'.data))
             /\ appendedGround' = Append(appendedGround, GroundPosition(lastPoll'.data))
             /\ orbitPoints' = Stored(LastPoints(appendedOrbit'))
             /\ groundPoints' = Stored(LastPoints(appendedGround'))]_vars

C11_Witness ==
    /\ lastPoll.kind = "ok"
    /\ lastPoll.id = 3
    /\ issData = SamplePole
    /\ error = NoError
    /\ Len(appendedOrbit) = 2
    /\ Len(orbitPoints) = 2 * CoordsPerPoint
    /\ Len(groundPoints) = 2 * CoordsPerPoint
    /\ 2 \in inflight

\* C12: the polls whose sample became the current one did so in the order
\* in which they were issued: a poll never overwrites the sample of a poll
\* issued after it, and the trail points are appended in issue order.
C12_SamplesInIssueOrder ==
    \A i, j \in 1..Len(writers) : i < j => writers[i] < writers[j]

\* C13: a firing of the interval adds one request to those in flight and
\* removes none, whatever is still unresolved; every request issued is in
\* flight until it settles, and the request that settles applies its
\* result: a sample becomes the current one and is appended to both trails,
\* a failure becomes the error state.
C13_OverlappingPollsAllApplied ==
    /\ [](\A id \in inflight : id \in 1..requests)
    /\ [][ticks' # ticks =>
             /\ inflight' = inflight \cup {requests'}
             /\ requests' = requests + 1
             /\ requests' \notin inflight]_vars
    /\ [][inflight' # inflight =>
             \/ ticks' = ticks + 1
             \/ /\ lastPoll' # lastPoll
                /\ lastPoll'.id \in inflight
                /\ inflight' = inflight \ {lastPoll'.id}
                /\ lastPoll'.kind = "ok" =>
                       /\ issData' = lastPoll'.data
                       /\ Len(appendedOrbit') = Len(appendedOrbit) + 1
                       /\ Len(appendedGround') = Len(appendedGround) + 1
                /\ lastPoll'.kind # "ok" => error' = ErrMessage(lastPoll')]_vars

C13_Witness ==
    /\ Cardinality(inflight) = 2
    /\ ticks = 3
    /\ lastPoll.id = 3
    /\ lastPoll.kind = "ok"
    /\ writers = <<1, 3>>
    /\ inflight = {2, 4}

\* C16: the attempts of one call are strictly sequential: at most one of its
\* requests is outstanding, and it is the latest; attempt i+1 is issued only
\* by the firing of the backoff timer that was started after attempt i had
\* completed.
C16_AttemptsSequential ==
    /\ [](/\ \A i \in 1..Len(netLog) : netLog[i].outcome = Pending => i = Len(netLog)
          /\ Cardinality({i \in 1..Len(netLog) : netLog[i].outcome = Pending}) =< 1)
    /\ [][(calls' = calls /\ Len(netLog') > Len(netLog)) =>
             /\ Len(netLog') = Len(netLog) + 1
             /\ netLog[Len(netLog)].outcome # Pending
             /\ Len(waits) = Len(netLog)
             /\ Top.pc \in {"waitTry", "waitCatch"}
             /\ waits[Len(waits)] = Top.delay
             /\ waits' = waits
             /\ netLog'[Len(netLog')].outcome = Pending]_vars

C16_Witness ==
    /\ Len(netLog) = 3
    /\ netLog[1].outcome = Rejected
    /\ netLog[2].outcome = TooMany
    /\ netLog[3].outcome = Pending
    /\ waits = <<250, 500>>
    /\ Len(frames) = 3
    /\ Top.pc = "fetch"

----------------------------------------------------------------------------
(* The conversion of a sample's position to spherical angles, applied to   *)
(* every whole-degree position of the sample's domain.                     *)

Latitudes == (0 - 90)..90

Longitudes == (0 - 180)..180

Positions ==
    { [latitude |-> la, longitude |-> lo, altitude |-> 420, visibility |-> "daylight"] :
        la \in Latitudes, lo \in Longitudes }

InitAngles ==
    /\ apiKey = "key"
    /\ InitClient
    /\ InitHandlers
    /\ mounted = TRUE
    /\ intervalId = "set"
    /\ issData \in Positions
    /\ error = NoError
    /\ orbitPoints = <<>>
    /\ groundPoints = <<>>
    /\ issPosition = [x |-> 0, y |-> 0, z |-> 0]
    /\ inflight = {}
    /\ requests = 1
    /\ ticks = 0
    /\ lastPoll = [id |-> 1, kind |-> "ok", data |-> issData, active |-> TRUE]
    /\ appendedOrbit = <<>>
    /\ appendedGround = <<>>
    /\ writers = <<1>>
    /\ nextCity = ""
    /\ isPredicting = FALSE
    /\ isLiveGroundData = FALSE
    /\ groundConditions = NoConditions
    /\ groundDataInterval = "none"
    /\ groundTicks = 0

\* const { latitude, longitude } = data; const phi = ...; const theta = ...
ComputeAngles ==
    /\ angles = NoAngles
    /\ angles' = [phi |-> Phi(issData.latitude), theta |-> Theta(issData.longitude)]
    /\ UNCHANGED clientVars
    /\ UNCHANGED trackerVars
    /\ UNCHANGED <<activePage, groundVars, handlerVars, chatVars, historyVars>>

SpecAngles == InitAngles /\ [][ComputeAngles]_vars

\* C18: the polar angle is (90 - latitude) degrees and the azimuth is
\* (longitude + 180) degrees: latitude +90 gives polar angle 0 and latitude
\* -90 gives 180 at every longitude, latitude 0 with longitude 0 gives polar
\* angle 90 and azimuth 180, and every position of the domain gives a polar
\* angle in 0..180 and an azimuth in 0..360.
C18_SphericalAngles ==
    angles # NoAngles =>
        /\ angles.phi + issData.latitude = 90
        /\ angles.theta - issData.longitude = 180
        /\ issData.latitude = 90 => angles.phi = 0
        /\ issData.latitude = 0 - 90 => angles.phi = 180
        /\ (issData.latitude = 0 /\ issData.longitude = 0) =>
               angles = [phi |-> 90, theta |-> 180]
        /\ angles.phi \in 0..180
        /\ angles.theta \in 0..360

C18_Witness ==
    /\ issData.latitude = 0 - 90
    /\ issData.longitude = 0 - 180
    /\ angles = [phi |-> 180, theta |-> 0]

----------------------------------------------------------------------------
(* Termination of callGeminiAPI: every fetch settles, every backoff timer  *)
(* fires, and every continuation that is ready to run is run.              *)

Fairness ==
    /\ WF_vars(Fetched)
    /\ WF_vars(BackoffElapsed)
    /\ WF_vars(Propagate)
    /\ WF_vars(Deliver)

\* direct calls with the default delay and every number of retries
DefaultDelayCall ==
    \E p \in DirectPrompts, r \in 0..MaxRetries : callGeminiAPI(p, r, DefaultDelay)

NextCallsFair ==
    \/ DefaultDelayCall
    \/ Fetched
    \/ BackoffElapsed
    \/ Propagate
    \/ Deliver

SpecCallsFair == InitCalls /\ [][NextCallsFair]_vars /\ Fairness

\* what a call can hand to its caller
ReturnedTexts == Texts \cup {FallbackMsg, MissingKeyMsg}

Ended == Idle /\ result.kind \in {"return", "throw"}

\* C19: when every fetch and every backoff wait of a call completes, the
\* call ends: its caller receives either a text (an answer, the fallback
\* string or the missing-credential string) or a failure, never both and
\* only once, after at most retries + 1 attempts.
C19_CallTerminates ==
    /\ (call # NoCall) ~> Ended
    /\ [](/\ result.kind = "return" => result.text \in ReturnedTexts /\ result.err = NoErr
          /\ result.kind = "throw" => result.text = "" /\ result.err # NoErr
          /\ result.kind # "none" => settle.kind = "none" /\ frames = <<>>
          /\ Len(netLog) =< call.retries + 1)
    /\ [][result.kind # "none" => result' = result \/ calls' = calls + 1]_vars

C19_Witness ==
    /\ Ended
    /\ call.retries = DefaultRetries
    /\ result.kind = "throw"
    /\ Len(netLog) = DefaultRetries + 1
    /\ Len(waits) = DefaultRetries

----------------------------------------------------------------------------
(* Properties of the handlers, checked under SpecHandlers *)

\* C15: a call that fails never lets its failure out of the handler that
\* made it: handleSend appends the apology as a bot message, predictNextCity
\* shows "Prediction failed." and handleLearnMore shows "Could not load
\* details at this time." in the modal of its item; each clears its flag.
C15_FailureStaysInHandler ==
    /\ [](~escaped)
    /\ [][(lastCall' # lastCall /\ lastCall'.settle.kind = "throw") =>
             LET c == lastCall'.call
             IN /\ c.caller = "handleSend" =>
                       /\ messages' = Append(messages, [text |-> Apology, sender |-> "bot"])
                       /\ ~isLoading'
                /\ c.caller = "predictNextCity" =>
                       /\ nextCity' = PredictionFailed
                       /\ ~isPredicting'
                /\ c.caller = "handleLearnMore" =>
                       /\ modalContent' = [year |-> c.item.year, event |-> c.item.event,
                                           details |-> CouldNotLoad]
                       /\ ~isLoadingModal']_vars

C15_Witness ==
    /\ nextCity = PredictionFailed
    /\ ~isPredicting
    /\ activePage = "history"
    /\ lastCall.call.caller = "handleLearnMore"
    /\ lastCall.settle.kind = "throw"
    /\ modalContent.details = CouldNotLoad
    /\ ~isLoadingModal
    /\ ~escaped

BlankInputs == {"", "  "}

\* the calls of handleSend that have not settled
ChatCalls == {c \in pending : c.caller = "handleSend"}

\* C20: handleSend with a blank input or while a reply is pending changes
\* nothing; otherwise it appends the user's message, sets the loading flag
\* and makes exactly one call; when that call settles exactly one bot
\* message (the answer or the apology) is appended and the flag is cleared;
\* at most one call of the chatbot is pending at any time.
C20_OneReplyPerSend ==
    /\ [](/\ Cardinality(ChatCalls) =< 1
          /\ isLoading <=> ChatCalls # {})
    /\ [][sends' # sends =>
             IF input \in BlankInputs \/ isLoading
             THEN UNCHANGED <<messages, input, isLoading, pending, issued>>
             ELSE /\ messages' = Append(messages, [text |-> input, sender |-> "user"])
                  /\ isLoading'
                  /\ issued' = issued + 1
                  /\ pending' = pending \cup {HandlerCall(issued', "handleSend", NoItem, "", "")}]_vars
    /\ [][(lastCall' # lastCall /\ lastCall'.call.caller = "handleSend") =>
             /\ Len(messages') = Len(messages) + 1
             /\ SubSeq(messages', 1, Len(messages)) = messages
             /\ messages'[Len(messages')].sender = "bot"
             /\ messages'[Len(messages')].text =
                    IF lastCall'.settle.kind = "return" THEN lastCall'.settle.text ELSE Apology
             /\ ~isLoading'
             /\ ChatCalls' = {}]_vars

C20_Witness ==
    /\ sends = 3
    /\ ~isLoading
    /\ Len(messages) = 5
    /\ messages[2] = [text |-> "Apollo?", sender |-> "user"]
    /\ messages[3] = [text |-> Apology, sender |-> "bot"]
    /\ messages[5] = [text |-> "Clear", sender |-> "bot"]
    /\ input = "  "

----------------------------------------------------------------------------
(* Properties of the tracker's two schedules, checked under SpecGround *)

\* the calls with which a fetchGroundConditions begins
GroundStarts(P) == {c \in P : c.caller = "fetchGroundConditions" /\ c.stage = "weather"}

\* C14: once the tracker is torn down neither interval is set and neither
\* fires again: no telemetry request is issued and no fetchGroundConditions
\* begins; the teardown removes no request and no call that is in flight,
\* and these still settle afterwards.
C14_NoTimerAfterTeardown ==
    /\ [](~mounted => intervalId = "cleared" /\ groundDataInterval # "set")
    /\ [][~mounted =>
             /\ ticks' = ticks
             /\ groundTicks' = groundTicks
             /\ requests' = requests
             /\ inflight' \subseteq inflight
             /\ GroundStarts(pending') \subseteq pending]_vars
    /\ [][(mounted /\ ~mounted') =>
             /\ inflight' = inflight
             /\ pending' = pending]_vars

C14_Witness ==
    /\ ~mounted
    /\ isLiveGroundData
    /\ groundDataInterval = "cleared"
    /\ intervalId = "cleared"
    /\ groundTicks = 1
    /\ ~lastPoll.active
    /\ lastPoll.kind = "ok"
    /\ lastPoll.id = 2
    /\ ~lastCall.active
    /\ lastCall.call.caller = "fetchGroundConditions"
    /\ lastCall.call.stage = "location"
    /\ groundConditions = [weather |-> "Clear", location |-> "Clear"]

\* C17: a firing of the 10 s interval and the settling of a call of
\* fetchGroundConditions leave the current sample, the error state, both
\* trail buffers and the telemetry requests as they were; a firing of the
\* 5 s interval and the settling of a telemetry request leave the ground
\* conditions, the next-city value, the 10 s interval and the handlers'
\* calls as they were.
C17_SchedulesIndependent ==
    /\ [][(\/ groundTicks' # groundTicks
           \/ lastCall' # lastCall /\ lastCall'.call.caller = "fetchGroundConditions") =>
             UNCHANGED <<issData, error, orbitPoints, groundPoints, appendedOrbit,
                         appendedGround, inflight, requests, ticks, intervalId>>]_vars
    /\ [][(lastPoll' # lastPoll \/ ticks' # ticks) =>
             UNCHANGED <<groundConditions, nextCity, isPredicting, isLiveGroundData,
                         groundDataInterval, groundTicks, pending, issued>>]_vars

C17_Witness ==
    /\ mounted
    /\ ticks = 1
    /\ inflight = {2}
    /\ issData = SamplePole
    /\ groundTicks = 1
    /\ GroundStarts(pending) # {}
    /\ lastCall.call.caller = "fetchGroundConditions"
    /\ groundConditions = [weather |-> "Clear", location |-> NotAvailable]

\* C21: the chatbot's message list only grows at its end, begins with the
\* bot greeting and alternates bot and user messages; its last message is
\* a user message exactly while the loading flag is set.
C21_MessagesAlternate ==
    /\ [](/\ Len(messages) >= 1
          /\ messages[1] = Greeting
          /\ \A i \in 1..Len(messages) :
                 messages[i].sender = IF i % 2 = 1 THEN "bot" ELSE "user"
          /\ isLoading <=> messages[Len(messages)].sender = "user")
    /\ [][/\ Len(messages') >= Len(messages)
          /\ SubSeq(messages', 1, Len(messages)) = messages]_vars

C21_Witness ==
    /\ isLoading
    /\ Len(messages) = 4
    /\ messages[3] = [text |-> Apology, sender |-> "bot"]
    /\ messages[4] = [text |-> "Apollo?", sender |-> "user"]
    /\ sends = 3

\* C22: a closed details modal is opened only by a click on Learn More:
\* the settling of a call made before the close leaves it closed.
C22_ClosedModalStaysClosed ==
    [][(modalContent = NoModal /\ modalContent' # NoModal) =>
           /\ lastClicked' # lastClicked
           /\ lastCall' = lastCall]_vars

\* the calls of handleLearnMore that have not settled
HistoryCalls == {c \in pending : c.caller = "handleLearnMore"}

\* C23: when every call of handleLearnMore has settled the open modal shows
\* the event and the details of the item clicked last, and the loading
\* indicator is on exactly while the call of that item has not settled.
C23_ModalShowsLastClicked ==
    lastClicked # NoClick =>
        /\ (HistoryCalls = {} /\ modalContent # NoModal) =>
               /\ modalContent.year = lastClicked.item.year
               /\ modalContent.event = lastClicked.item.event
               /\ modalContent.details # Generating
        /\ isLoadingModal <=> (\E c \in HistoryCalls : c.id = lastClicked.id)

\* C24: turning the toggle off clears the 10 s interval and resets the
\* ground conditions to { weather: null, location: null }, and they stay so
\* while the toggle is off, also when a fetchGroundConditions that began
\* before settles afterwards.
C24_ToggleOffKeepsEmpty ==
    /\ [][(isLiveGroundData /\ ~isLiveGroundData') =>
             /\ groundDataInterval' # "set"
             /\ groundConditions' = NoConditions]_vars
    /\ [](~isLiveGroundData => groundConditions = NoConditions)

\* the calls of fetchGroundConditions that have not settled
GroundCalls(P) == {c \in P : c.caller = "fetchGroundConditions"}

\* what a call of fetchGroundConditions leaves in its field
FieldOf(s) == IF s.kind = "return" THEN s.text ELSE NotAvailable

\* C25: fetchGroundConditions makes no call without a sample; its location
\* call is made when, and only when, its weather call has settled, whether
\* that call failed or not; a failed call leaves "N/A" in its own field
\* only; no failure leaves it; the ground conditions are written once, when
\* the location call has settled, with both fields.
C25_GroundConditionsOnce ==
    /\ [](~escaped)
    /\ [][GroundStarts(pending') \ pending # {} =>
             /\ issData # Null
             /\ Cardinality(GroundCalls(pending') \ pending) = 1
             /\ groundConditions' = groundConditions]_vars
    /\ [][(lastCall' # lastCall /\ lastCall'.call.caller = "fetchGroundConditions") =>
             LET c == lastCall'.call
                 s == lastCall'.settle
             IN /\ c \in pending
                /\ c \notin pending'
                /\ c.stage = "weather" =>
                       /\ groundConditions' = groundConditions
                       /\ pending' \ pending =
                              {HandlerCall(issued', c.caller, c.item, "location", FieldOf(s))}
                /\ c.stage = "location" =>
                       /\ groundConditions' = [weather |-> c.weather, location |-> FieldOf(s)]
                       /\ pending' \ pending = {}]_vars
    /\ [][(\E c \in pending' \ pending : c.stage = "location") =>
             /\ lastCall' # lastCall
             /\ lastCall'.call.stage = "weather"]_vars
    /\ [][groundConditions' # groundConditions =>
             \/ lastCall' # lastCall /\ lastCall'.call.stage = "location"
             \/ isLiveGroundData /\ ~isLiveGroundData']_vars

C25_Witness ==
    /\ isLiveGroundData
    /\ issData = SamplePole
    /\ lastCall.call.caller = "fetchGroundConditions"
    /\ lastCall.call.stage = "location"
    /\ lastCall.settle.kind = "return"
    /\ groundConditions = [weather |-> NotAvailable, location |-> "Clear"]
    /\ ~escaped

\* C26: once a poll has completed, the error state is set exactly when the
\* poll that completed last failed; the current sample is absent exactly
\* when no poll has succeeded yet, and once present it is never absent again.
C26_ErrorAndSampleState ==
    /\ [](lastPoll # NoPoll => (error # NoError <=> lastPoll.kind # "ok"))
    /\ [](issData = Null <=> appendedOrbit = <<>>)
    /\ [][issData # Null => issData' # Null]_vars

====
